---- MODULE Spec2Model ----
(***************************************************************************)
(* Model of rust-lib/flowy-sys/src/stream.rs: the command dispatch stream. *)
(*                                                                         *)
(*   CommandStream         the dispatcher (async_send, sync_send, tx,      *)
(*                         take_data_rx)                                   *)
(*   CommandStreamFuture   the background loop polling the receiver and    *)
(*                         spawning one local task per item                *)
(*   CommandStreamService  the routing service (call)                      *)
(*                                                                         *)
(* An item (StreamData) is identified by its position in `items`; that     *)
(* number is also its `config` and the identifier of its request.          *)
(***************************************************************************)
EXTENDS Naturals, Sequences, FiniteSets

\* ---------------------------------------------------------------- bounds
\* StreamData values created in one behaviour
MaxItems == 2
\* live UnboundedSender clones handed out by tx()
MaxClones == 1
\* calls of take_data_rx in one behaviour
MaxTakes == 2

\* ------------------------------------------------------ external shapes
Events == {"ping", "missing"}

\* The registry the dispatcher is constructed with: event -> module.
InitialModuleMap == [e \in {"ping"} |-> "EchoModule"]

NoBody == [kind |-> "None", event |-> "none", id |-> 0]

\* EventRequest { event, id, payload }: get_event(), get_id(), the payload.
EventRequest(ev, n) == [event |-> ev, id |-> n]

\* EventResponse: a status and a body.
Success(req) ==
    [status |-> "Ok", body |-> [kind |-> "Payload", event |-> req.event, id |-> req.id]]

\* SystemError values.
HandlerError(req) == [kind |-> "HandlerError", event |-> req.event, id |-> req.id]
FactoryError(req) == [kind |-> "FactoryError", event |-> req.event, id |-> req.id]

\* format!("Can not find the module to handle the request:{:?}", request)
\* wrapped by InternalError::new(msg).into(): the message carries the request.
InternalError(req) == [kind |-> "InternalError", event |-> req.event, id |-> req.id]

\* Result<EventResponse, SystemError>
Ok(resp) == [tag |-> "Ok", status |-> resp.status, body |-> resp.body]
Err(e) == [tag |-> "Err", status |-> "SystemError", body |-> e]
NoResult == [tag |-> "None", status |-> "None", body |-> NoBody]

\* impl From<SystemError> for EventResponse: the universal coercion (e.into()).
Into(e) == [status |-> "Err", body |-> e]

\* Mutant of UnwrapOrElseInto: the error is replaced by a default error
\* Response instead of being converted.
UnwrapOrDefault(result) ==
    IF result.tag = "Ok" THEN [status |-> result.status, body |-> result.body]
    ELSE [status |-> "Err", body |-> NoBody]

\* result.unwrap_or_else(|e| e.into())
UnwrapOrElseInto(result) ==
    IF result.tag = "Ok" THEN [status |-> result.status, body |-> result.body]
    ELSE Into(result.body)

\* Mutant of Get: every event key resolves to a module.
GetAny(map, ev) == "Some"

\* module_map.get(request.get_event())
Get(map, ev) == IF ev \in DOMAIN map THEN "Some" ELSE "None"

\* ------------------------------------------------------------------ state
VARIABLES
    module_map,     \* CommandStream.module_map (the Module Registry)
    stream_alive,   \* the CommandStream (and its data_tx) has not been dropped
    data_rx,        \* CommandStream.data_rx: "Some" or "None"
    tx_clones,      \* number of live senders returned by tx()
    rx_taken,       \* number of receivers returned by take_data_rx
    take_calls,     \* number of take_data_rx calls made
    take_panics,    \* number of take_data_rx calls that panicked
    rx_dropped,     \* the UnboundedReceiver has been dropped
    loop,           \* CommandStreamFuture: "none", "polling", "ready"
    queue,          \* the channel's contents, head first
    items,          \* every StreamData created, by number
    rt,             \* the routing state of every item
    enq_log,        \* items accepted by the channel, in order
    deq_log,        \* items received by the loop, in order
    cb_order        \* items whose callback ran, in order

vars == <<module_map, stream_alive, data_rx, tx_clones, rx_taken, take_calls,
          take_panics, rx_dropped, loop, queue, items, rt, enq_log, deq_log,
          cb_order>>

chan == <<stream_alive, data_rx, tx_clones, rx_taken, take_calls, take_panics,
          rx_dropped>>

\* What a producer passes as `request`: None, or Some request for an event.
Requests == {"None"} \cup Events

\* StreamData::new(config, request).with_callback(..) or without. `event` is
\* the event of the request it holds, "none" for request = None.
StreamData(n, rq, has_callback) ==
    [config |-> n,
     request |-> IF rq = "None" THEN "None" ELSE "Some",
     event |-> IF rq = "None" THEN "none" ELSE rq,
     callback |-> has_callback]

\* The routing state of an item that nothing has touched yet.
\*   pc       where the item is
\*   mode     "none", "sync" (sync_send) or "task" (spawn_local)
\*   steps    the routing steps performed, in order
\*   result   `result` of call (line 146)
\*   got      the responses the callback was invoked with
\*   ret      what the future of call resolved to
\*   out      what the caller of call did with it
Fresh(pc) ==
    [pc |-> pc, mode |-> "none", steps |-> <<>>, result |-> NoResult,
     got |-> <<>>, ret |-> NoResult, out |-> "none"]

Ids == 1..Len(items)
InFlight(m) == {i \in Ids : rt[i].mode = m /\ rt[i].pc \in {"spawned", "in_factory", "in_handler"}}
Senders == (IF stream_alive THEN 1 ELSE 0) + tx_clones

Init ==
    /\ module_map = InitialModuleMap
    /\ stream_alive = TRUE
    /\ data_rx = "Some"
    /\ tx_clones = 0
    /\ rx_taken = 0
    /\ take_calls = 0
    /\ take_panics = 0
    /\ rx_dropped = FALSE
    /\ loop = "none"
    /\ queue = <<>>
    /\ items = <<>>
    /\ rt = <<>>
    /\ enq_log = <<>>
    /\ deq_log = <<>>
    /\ cb_order = <<>>

\* ---------------------------------------------------------------- channel
\* Mutant of ChanSend: the message is queued although the receiver is gone.
ChanSendUnchecked(q, closed, i) == Append(q, i)

\* UnboundedSender::send: the message goes to the tail while the receiver
\* exists; with the receiver gone send returns Err and the message is lost.
ChanSend(q, closed, i) == IF closed THEN q ELSE Append(q, i)

\* Mutant of PollRecv: the newest message is received first.
PollRecvNewest(q) == [item |-> q[Len(q)], rest |-> SubSeq(q, 1, Len(q) - 1)]

\* UnboundedReceiver::poll_recv with a message available: the oldest one.
PollRecv(q) == [item |-> Head(q), rest |-> Tail(q)]

\* Dropping the receiver drops every message still in the channel.
DropQueued(r) ==
    [i \in DOMAIN r |-> IF r[i].pc = "queued" THEN [r[i] EXCEPT !.pc = "dropped"] ELSE r[i]]

\* A new StreamData handed to a sender of the channel (`let _ = tx.send(data)`).
Enqueue(rq, has_callback) ==
    LET n == Len(items) + 1 IN
    /\ Len(items) < MaxItems
    /\ items' = Append(items, StreamData(n, rq, has_callback))
    /\ queue' = ChanSend(queue, rx_dropped, n)
    /\ rt' = Append(rt, Fresh(IF rx_dropped THEN "dropped" ELSE "queued"))
    /\ enq_log' = IF rx_dropped THEN enq_log ELSE Append(enq_log, n)
    /\ UNCHANGED <<module_map, chan, loop, deq_log, cb_order>>

\* CommandStream::async_send
AsyncSend(rq, has_callback) ==
    /\ stream_alive
    /\ Enqueue(rq, has_callback)

\* A send through a clone returned by tx().
TxSend(rq, has_callback) ==
    /\ tx_clones > 0
    /\ Enqueue(rq, has_callback)

\* CommandStream::tx
Tx ==
    /\ stream_alive
    /\ tx_clones < MaxClones
    /\ tx_clones' = tx_clones + 1
    /\ UNCHANGED <<module_map, stream_alive, data_rx, rx_taken, take_calls,
                   take_panics, rx_dropped, loop, queue, items, rt, enq_log,
                   deq_log, cb_order>>

\* A clone returned by tx() is dropped.
DropTx ==
    /\ tx_clones > 0
    /\ tx_clones' = tx_clones - 1
    /\ UNCHANGED <<module_map, stream_alive, data_rx, rx_taken, take_calls,
                   take_panics, rx_dropped, loop, queue, items, rt, enq_log,
                   deq_log, cb_order>>

\* Mutant of TakeUnwrap: the receiver is handed out but left in the stream.
TakeUnwrapKeep(rx) ==
    IF rx = "Some"
    THEN [data_rx |-> "Some", returned |-> 1, panicked |-> 0]
    ELSE [data_rx |-> "None", returned |-> 0, panicked |-> 1]

\* self.data_rx.take().unwrap()
TakeUnwrap(rx) ==
    IF rx = "Some"
    THEN [data_rx |-> "None", returned |-> 1, panicked |-> 0]
    ELSE [data_rx |-> "None", returned |-> 0, panicked |-> 1]

\* CommandStream::take_data_rx (&mut self: no sync_send is running)
TakeDataRx ==
    LET t == TakeUnwrap(data_rx) IN
    /\ stream_alive
    /\ InFlight("sync") = {}
    /\ take_calls < MaxTakes
    /\ take_calls' = take_calls + 1
    /\ data_rx' = t.data_rx
    /\ rx_taken' = rx_taken + t.returned
    /\ take_panics' = take_panics + t.panicked
    /\ UNCHANGED <<module_map, stream_alive, tx_clones, rx_dropped, loop, queue,
                   items, rt, enq_log, deq_log, cb_order>>

\* The CommandStream is dropped: its data_tx goes, and its data_rx if it still
\* holds one.
DropStream ==
    /\ stream_alive
    /\ InFlight("sync") = {}
    /\ stream_alive' = FALSE
    /\ data_rx' = "None"
    /\ IF data_rx = "Some"
       THEN /\ rx_dropped' = TRUE
            /\ queue' = <<>>
            /\ rt' = DropQueued(rt)
       ELSE UNCHANGED <<rx_dropped, queue, rt>>
    /\ UNCHANGED <<module_map, tx_clones, rx_taken, take_calls, take_panics,
                   loop, items, enq_log, deq_log, cb_order>>

\* The owner of the taken receiver (the caller of take_data_rx, or the
\* CommandStreamFuture it was moved into) drops it.
DropReceiver ==
    /\ rx_taken > 0
    /\ ~rx_dropped
    /\ loop \in {"none", "polling"}
    /\ rx_dropped' = TRUE
    /\ loop' = IF loop = "polling" THEN "cancelled" ELSE loop
    /\ queue' = <<>>
    /\ rt' = DropQueued(rt)
    /\ UNCHANGED <<module_map, stream_alive, data_rx, tx_clones, rx_taken,
                   take_calls, take_panics, items, enq_log, deq_log, cb_order>>

\* ------------------------------------------------------- background loop
\* Mutant of NewFuture: the loop polls a channel of its own, and what the
\* first one held is gone.
NewFutureOwnChannel ==
    /\ rx_taken > 0
    /\ ~rx_dropped
    /\ loop = "none"
    /\ loop' = "polling"
    /\ queue' = <<>>
    /\ UNCHANGED <<module_map, chan, items, rt, enq_log, deq_log, cb_order>>

\* CommandStreamFuture::new(module_map, data_rx), spawned on the local set.
NewFuture ==
    /\ rx_taken > 0
    /\ ~rx_dropped
    /\ loop = "none"
    /\ loop' = "polling"
    /\ UNCHANGED <<module_map, chan, queue, items, rt, enq_log, deq_log, cb_order>>

\* Mutant of LoopRecv: the loop awaits the task it spawned before it polls
\* the receiver again.
LoopRecvAwaitTask ==
    /\ loop = "polling"
    /\ ~rx_dropped
    /\ queue # <<>>
    /\ InFlight("task") = {}
    /\ queue' = Tail(queue)
    /\ deq_log' = Append(deq_log, Head(queue))
    /\ rt' = [rt EXCEPT ![Head(queue)] =
                [@ EXCEPT !.pc = "spawned", !.mode = "task",
                          !.steps = <<"new_service">>]]
    /\ UNCHANGED <<module_map, chan, loop, items, enq_log, cb_order>>

\* poll, Some(ctx): new_service(()) and spawn_local of the dispatch task.
LoopRecv ==
    /\ loop = "polling"
    /\ ~rx_dropped
    /\ queue # <<>>
    /\ LET m == PollRecv(queue) IN
        /\ queue' = m.rest
        /\ deq_log' = Append(deq_log, m.item)
        /\ rt' = [rt EXCEPT ![m.item] =
                    [@ EXCEPT !.pc = "spawned", !.mode = "task",
                              !.steps = <<"new_service">>]]
    /\ UNCHANGED <<module_map, chan, loop, items, enq_log, cb_order>>

\* Mutant of LoopReady: the loop ends as soon as the channel is empty.
LoopReadyOnEmpty ==
    /\ loop = "polling"
    /\ ~rx_dropped
    /\ queue = <<>>
    /\ loop' = "ready"
    /\ UNCHANGED <<module_map, chan, queue, items, rt, enq_log, deq_log, cb_order>>

\* poll, None: every sender is gone and the channel is empty.
LoopReady ==
    /\ loop = "polling"
    /\ ~rx_dropped
    /\ queue = <<>>
    /\ Senders = 0
    /\ loop' = "ready"
    /\ UNCHANGED <<module_map, chan, queue, items, rt, enq_log, deq_log, cb_order>>

\* ------------------------------------------------------- routing service
\* What the caller of call does with the resolved future: sync_send unwraps
\* it (line 90), the spawned task discards it (line 125).
CallerOutcome(mode, ret) ==
    IF mode = "sync"
    THEN (IF ret.tag = "Ok" THEN "returned" ELSE "panicked")
    ELSE "discarded"

\* Mutant of Respond: without a callback the result is not looked at and an
\* empty success is returned.
RespondOnlyForCallback(r, result, has_callback) ==
    LET response == IF has_callback THEN UnwrapOrElseInto(result)
                    ELSE [status |-> "Ok", body |-> NoBody]
        ret == Ok(response) IN
    [r EXCEPT !.pc = "done",
              !.steps = @ \o (IF has_callback THEN <<"callback">> ELSE <<>>) \o <<"return">>,
              !.result = result,
              !.got = IF has_callback THEN Append(@, response) ELSE @,
              !.ret = ret,
              !.out = CallerOutcome(r.mode, ret)]

\* Mutant of Respond: the response is returned and the callback is left
\* uninvoked.
RespondReturnOnly(r, result, has_callback) ==
    LET response == UnwrapOrElseInto(result)
        ret == Ok(response) IN
    [r EXCEPT !.pc = "done",
              !.steps = @ \o <<"return">>,
              !.result = result,
              !.ret = ret,
              !.out = CallerOutcome(r.mode, ret)]

\* Lines 161-166: coerce the result, run the callback on a clone, resolve Ok.
Respond(r, result, has_callback) ==
    LET response == UnwrapOrElseInto(result)
        ret == Ok(response) IN
    [r EXCEPT !.pc = "done",
              !.steps = @ \o (IF has_callback THEN <<"callback">> ELSE <<>>) \o <<"return">>,
              !.result = result,
              !.got = IF has_callback THEN Append(@, response) ELSE @,
              !.ret = ret,
              !.out = CallerOutcome(r.mode, ret)]

\* Mutant of CallStart: an absent payload is routed like a request for an
\* unknown event instead of panicking.
CallStartLenient(r, item, n, mode) ==
    IF item.request = "Some" /\ Get(module_map, item.event) = "Some"
    THEN [r EXCEPT !.pc = "in_factory", !.mode = mode,
                   !.steps = @ \o <<"take", "lookup", "new_handler">>]
    ELSE Respond([r EXCEPT !.mode = mode, !.steps = @ \o <<"take", "lookup">>],
                 Err(InternalError(EventRequest(item.event, n))),
                 item.callback)

\* CommandStreamService::call up to its first pending await: the payload is
\* taken (unwrap), the registry is looked up; on a hit new_service is called
\* and awaited, on a miss the error is built and the call runs to its end.
CallStart(r, item, n, mode) ==
    IF item.request = "None"
    THEN [r EXCEPT !.pc = "panicked", !.mode = mode, !.out = "panicked"]
    ELSE IF Get(module_map, item.event) = "Some"
    THEN [r EXCEPT !.pc = "in_factory", !.mode = mode,
                   !.steps = @ \o <<"take", "lookup", "new_handler">>]
    ELSE Respond([r EXCEPT !.mode = mode, !.steps = @ \o <<"take", "lookup">>],
                 Err(InternalError(EventRequest(item.event, n))),
                 item.callback)

\* The callbacks an action ran, appended to the order of callbacks.
Fired(i) == [k \in 1..(Len(rt'[i].got) - Len(rt[i].got)) |-> i]

\* data.request.take()
TakeRequest(item) == [item EXCEPT !.request = "None"]

\* Mutant of SyncSend: the call waits until the channel is empty and no
\* dispatch task is running.
SyncSendInTurn(rq, has_callback) ==
    LET n == Len(items) + 1
        item == StreamData(n, rq, has_callback) IN
    /\ stream_alive
    /\ Len(items) < MaxItems
    /\ queue = <<>>
    /\ InFlight("task") = {}
    /\ items' = Append(items, TakeRequest(item))
    /\ rt' = Append(rt, CallStart([Fresh("new") EXCEPT !.steps = <<"new_service">>],
                                  item, n, "sync"))
    /\ cb_order' = cb_order \o [k \in 1..Len(rt'[n].got) |-> n]
    /\ UNCHANGED <<module_map, chan, loop, queue, enq_log, deq_log>>

\* Mutant of SyncSend: the item is also sent to the channel.
SyncSendQueued(rq, has_callback) ==
    LET n == Len(items) + 1
        item == StreamData(n, rq, has_callback) IN
    /\ stream_alive
    /\ Len(items) < MaxItems
    /\ items' = Append(items, TakeRequest(item))
    /\ rt' = Append(rt, CallStart([Fresh("new") EXCEPT !.steps = <<"new_service">>],
                                  item, n, "sync"))
    /\ cb_order' = cb_order \o [k \in 1..Len(rt'[n].got) |-> n]
    /\ queue' = ChanSend(queue, rx_dropped, n)
    /\ UNCHANGED <<module_map, chan, loop, enq_log, deq_log>>

\* CommandStream::sync_send: new_service, then call on the calling thread.
SyncSend(rq, has_callback) ==
    LET n == Len(items) + 1
        item == StreamData(n, rq, has_callback) IN
    /\ stream_alive
    /\ Len(items) < MaxItems
    /\ items' = Append(items, TakeRequest(item))
    /\ rt' = Append(rt, CallStart([Fresh("new") EXCEPT !.steps = <<"new_service">>],
                                  item, n, "sync"))
    /\ cb_order' = cb_order \o [k \in 1..Len(rt'[n].got) |-> n]
    /\ UNCHANGED <<module_map, chan, loop, queue, enq_log, deq_log>>

\* Mutant of TaskStart: the lookup removes the module it finds from the
\* registry.
TaskStartRemove(i) ==
    /\ rt[i].pc = "spawned"
    /\ items' = [items EXCEPT ![i] = TakeRequest(@)]
    /\ rt' = [rt EXCEPT ![i] = CallStart(@, items[i], i, "task")]
    /\ cb_order' = cb_order \o Fired(i)
    /\ module_map' = [e \in DOMAIN module_map \ {items[i].event} |-> module_map[e]]
    /\ UNCHANGED <<chan, loop, queue, enq_log, deq_log>>

\* The spawned task runs: factory.await.unwrap(), then service.call(ctx).
TaskStart(i) ==
    /\ rt[i].pc = "spawned"
    /\ items' = [items EXCEPT ![i] = TakeRequest(@)]
    /\ rt' = [rt EXCEPT ![i] = CallStart(@, items[i], i, "task")]
    /\ cb_order' = cb_order \o Fired(i)
    /\ UNCHANGED <<module_map, chan, loop, queue, enq_log, deq_log>>

\* Mutant of FactoryAwait: a failed factory is asked again.
FactoryAwaitRetry(r, req, factory_ok) ==
    IF factory_ok
    THEN [r EXCEPT !.pc = "in_handler", !.steps = @ \o <<"handler_call">>]
    ELSE [r EXCEPT !.steps = @ \o <<"new_handler">>]

\* `fut.await?.call(request)`: the handler factory resolves. Ok: the handler
\* is called. Err: `?` leaves the async block with Err(e).
FactoryAwait(r, req, factory_ok) ==
    IF factory_ok
    THEN [r EXCEPT !.pc = "in_handler", !.steps = @ \o <<"handler_call">>]
    ELSE LET ret == Err(FactoryError(req)) IN
         [r EXCEPT !.pc = "failed", !.ret = ret, !.out = CallerOutcome(r.mode, ret)]

FactoryResolve(i, factory_ok) ==
    /\ rt[i].pc = "in_factory"
    /\ rt' = [rt EXCEPT ![i] = FactoryAwait(@, EventRequest(items[i].event, i), factory_ok)]
    /\ UNCHANGED <<module_map, chan, loop, queue, items, enq_log, deq_log, cb_order>>

\* What a handler resolves to: its success response or its declared error.
HandlerResult(req, handler_ok) ==
    IF handler_ok THEN Ok(Success(req)) ELSE Err(HandlerError(req))

\* `service_fut.await`: the handler resolves; its result is the value of the
\* match arm, and the call runs to its end (lines 161-166).
HandlerResolve(i, handler_ok) ==
    /\ rt[i].pc = "in_handler"
    /\ rt' = [rt EXCEPT ![i] =
                Respond(@, HandlerResult(EventRequest(items[i].event, i), handler_ok),
                        items[i].callback)]
    /\ cb_order' = cb_order \o Fired(i)
    /\ UNCHANGED <<module_map, chan, loop, queue, items, enq_log, deq_log>>

\* ------------------------------------------------------------ behaviours
Next ==
    \/ \E rq \in Requests, cb \in BOOLEAN : AsyncSend(rq, cb)
    \/ \E rq \in Requests, cb \in BOOLEAN : TxSend(rq, cb)
    \/ \E rq \in Requests, cb \in BOOLEAN : SyncSend(rq, cb)
    \/ Tx
    \/ DropTx
    \/ TakeDataRx
    \/ DropStream
    \/ DropReceiver
    \/ NewFuture
    \/ LoopRecv
    \/ LoopReady
    \/ \E i \in Ids : TaskStart(i)
    \/ \E i \in Ids, ok \in BOOLEAN : FactoryResolve(i, ok)
    \/ \E i \in Ids, ok \in BOOLEAN : HandlerResolve(i, ok)

Spec == Init /\ [][Next]_vars

\* ---------------------------------------------------------------- claims
Range(q) == {q[k] : k \in DOMAIN q}

\* The items whose call has resolved (the payload was present).
Resolved == {i \in Ids : rt[i].pc \in {"done", "failed"}}

\* The event keys the registry does not hold.
Unregistered == Events \ DOMAIN module_map

\* C1: every item with a callback that call has processed had its callback
\* invoked exactly once, whatever the lookup, the handler factory and the
\* handler returned.
C1_CallbackExactlyOnce ==
    \A i \in Ids :
        /\ Len(rt[i].got) <= 1
        /\ (items[i].callback /\ i \in Resolved) => Len(rt[i].got) = 1

\* C2: for every item whose payload was present, call resolves to a Response
\* (never to an error), and sync_send returns it instead of panicking.
C2_CallAlwaysResponds ==
    \A i \in Resolved :
        /\ rt[i].ret.tag = "Ok"
        /\ rt[i].mode = "sync" => rt[i].out = "returned"

\* C3: an item whose event key is not registered gets an error Response that
\* identifies its request, and neither the handler factory nor a handler is
\* invoked for it.
C3_RoutingMiss ==
    \A i \in Ids :
        items[i].event \in Unregistered =>
            /\ "new_handler" \notin Range(rt[i].steps)
            /\ "handler_call" \notin Range(rt[i].steps)
            /\ rt[i].pc \in {"queued", "dropped", "spawned", "done"}
            /\ "lookup" \in Range(rt[i].steps) =>
                /\ rt[i].pc = "done"
                /\ rt[i].ret.tag = "Ok"
                /\ rt[i].ret.status = "Err"
                /\ rt[i].ret.body.kind = "InternalError"
                /\ rt[i].ret.body.event = items[i].event
                /\ rt[i].ret.body.id = items[i].config

C3_Witness ==
    \E i, j \in Ids :
        /\ items[i].event \in Unregistered /\ rt[i].mode = "sync" /\ rt[i].pc = "done"
        /\ items[j].event \in Unregistered /\ rt[j].mode = "task" /\ rt[j].pc = "done"

\* C4: for an item whose event key is registered, the Response call returns
\* is the handler's own result (its success Response, or its error coerced),
\* and every Response the callback receives is the one call returns.
C4_HandlerResultDelivered ==
    \A i \in Ids :
        items[i].event \in DOMAIN module_map =>
            /\ \A k \in DOMAIN rt[i].got :
                /\ rt[i].ret.tag = "Ok"
                /\ rt[i].got[k].status = rt[i].ret.status
                /\ rt[i].got[k].body = rt[i].ret.body
            /\ rt[i].pc = "done" =>
                /\ "handler_call" \in Range(rt[i].steps)
                /\ rt[i].ret.tag = "Ok"
                /\ rt[i].ret.body = rt[i].result.body
                /\ rt[i].ret.body.id = items[i].config
                /\ rt[i].result.tag = "Ok" =>
                    rt[i].ret.status = "Ok" /\ rt[i].ret.body.kind = "Payload"
                /\ rt[i].result.tag = "Err" =>
                    rt[i].ret.status = "Err" /\ rt[i].ret.body.kind = "HandlerError"
                /\ items[i].callback => Len(rt[i].got) = 1

C4_Witness ==
    \E i, j \in Ids :
        /\ items[i].event \in DOMAIN module_map /\ items[i].callback
        /\ rt[i].pc = "done" /\ rt[i].result.tag = "Ok"
        /\ items[j].event \in DOMAIN module_map /\ items[j].callback
        /\ rt[j].pc = "done" /\ rt[j].result.tag = "Err"

\* A step that hands a new item to a sender of the channel (async_send, or a
\* send through a tx() clone).
EnqueueStep == Len(items') = Len(items) + 1 /\ rt'[Len(items')].mode = "none"

\* C5: async_send can always be called and never fails: with the receiver
\* alive the item goes to the tail of the queue; with the receiver dropped
\* the item is dropped, and a dropped item is never routed: no routing step,
\* no handler and no callback ever happens for it.
C5_AsyncSendFireAndForget ==
    /\ [](stream_alive /\ Len(items) < MaxItems =>
            \A rq \in Requests, cb \in BOOLEAN : ENABLED AsyncSend(rq, cb))
    /\ [][/\ EnqueueStep =>
                LET n == Len(items') IN
                IF rx_dropped
                THEN queue' = queue /\ rt'[n].pc = "dropped" /\ enq_log' = enq_log
                ELSE queue' = Append(queue, n) /\ rt'[n].pc = "queued"
          /\ \A i \in Ids :
                rt[i].pc = "dropped" =>
                    /\ rt'[i] = rt[i]
                    /\ rt[i].steps = <<>> /\ rt[i].got = <<>>
                    /\ i \notin Range(queue') /\ i \notin Range(deq_log')
                    /\ i \notin Range(cb_order')]_vars

C5_Witness ==
    \E i, j \in Ids :
        /\ rt[i].pc = "dropped" /\ i \notin Range(enq_log) /\ items[i].callback
        /\ j \in Range(enq_log)

\* C6: the loop receives items in the order the channel accepted them, and
\* each item at most once: the received items are a prefix of the accepted
\* ones, and while the receiver lives the rest is the queue, in that order.
C6_FifoDequeue ==
    /\ Len(deq_log) <= Len(enq_log)
    /\ \A k \in DOMAIN deq_log : deq_log[k] = enq_log[k]
    /\ \A k, l \in DOMAIN deq_log : deq_log[k] = deq_log[l] => k = l
    /\ ~rx_dropped => enq_log = deq_log \o queue

C6_Witness == Len(deq_log) >= 2 /\ deq_log[1] < deq_log[2]

\* C7: once the producers are gone, the loop has ended and no task is left
\* running, the queue is empty and every received item that carried a payload
\* and a callback has had its callback invoked.
C7_DrainedCallbacksFired ==
    (loop = "ready" /\ InFlight("task") = {}) =>
        /\ queue = <<>>
        /\ Range(deq_log) = Range(enq_log)
        /\ \A i \in Range(deq_log) :
            (items[i].callback /\ rt[i].pc # "panicked") => Len(rt[i].got) >= 1

\* C8: when every item was enqueued with a payload and a callback, and the
\* loop has received them all and every task has ended, each item's callback
\* has fired exactly once.
C8_AllCallbacksOnceAfterDrain ==
    (/\ Len(items) >= 2
     /\ Range(deq_log) = Ids
     /\ InFlight("task") = {}
     /\ \A i \in Ids : items[i].callback /\ rt[i].pc # "panicked")
        => \A i \in Ids : Len(rt[i].got) = 1

\* The two callback orders of C8 for items 1 and 2, both received by the loop.
C8_FirstThenSecond == Range(deq_log) = {1, 2} /\ cb_order = <<1, 2>>
C8_SecondThenFirst == Range(deq_log) = {1, 2} /\ cb_order = <<2, 1>>

\* C9: the receiver has at most one owner: once take_data_rx has been called
\* the stream holds none, the first call returned it, and every later call
\* panicked and returned nothing.
C9_ReceiverTakenOnce ==
    /\ (IF data_rx = "Some" THEN 1 ELSE 0) + rx_taken <= 1
    /\ take_calls >= 1 =>
        /\ data_rx = "None"
        /\ rx_taken = 1
        /\ take_panics = take_calls - 1

C9_Witness == take_calls >= 2 /\ take_panics >= 1 /\ rx_taken = 1

\* A step of a sync_send: its item is created, or its routing advances.
SyncStep ==
    \E i \in 1..Len(items') :
        /\ rt'[i].mode = "sync"
        /\ (i > Len(items) \/ rt'[i] # rt[i])

\* C10: a step of sync_send leaves the queue, what the channel accepted and
\* what the loop received, the loop and every background item as they are,
\* and its item is routed by a service constructed for it, never by a task.
C10_SyncSendBypassesQueue ==
    [][SyncStep =>
        /\ queue' = queue /\ enq_log' = enq_log /\ deq_log' = deq_log
        /\ loop' = loop
        /\ \A j \in Ids : rt[j].mode # "sync" => rt'[j] = rt[j]
        /\ \A i \in 1..Len(items') :
            rt'[i].mode = "sync" =>
                /\ i \notin Range(queue') /\ i \notin Range(enq_log')
                /\ rt'[i].steps # <<>> /\ rt'[i].steps[1] = "new_service"]_vars

C10_Witness ==
    \E i, j \in Ids :
        /\ rt[i].mode = "sync" /\ rt[i].out = "returned"
        /\ j < i /\ j \in Range(queue)

\* C11: the two delivery modes are not ordered. sync_send never waits for
\* what async_send queued: it can start whatever the queue holds and whatever
\* tasks are running, and each of its awaits can resolve at once. So a later
\* sync_send's callback can run before an earlier async_send's.
C11_NoCrossPathOrdering ==
    /\ (stream_alive /\ Len(items) < MaxItems) =>
            \A rq \in Requests, cb \in BOOLEAN : ENABLED SyncSend(rq, cb)
    /\ \A i \in Ids :
        rt[i].mode = "sync" =>
            /\ rt[i].pc = "in_factory" => ENABLED FactoryResolve(i, TRUE)
            /\ rt[i].pc = "in_handler" => ENABLED HandlerResolve(i, TRUE)

\* A (item 1) was sent with async_send, B (item 2) with sync_send afterwards,
\* and B's callback ran before A's.
C11_Witness ==
    /\ Len(items) >= 2
    /\ 1 \in Range(enq_log) /\ rt[1].mode = "task"
    /\ rt[2].mode = "sync"
    /\ cb_order = <<2, 1>>

\* C12: the loop does not wait for a task it spawned: while it polls a live
\* receiver with a message queued, receiving is enabled however many tasks
\* are still running, and a running task never stops another from advancing.
C12_LoopDoesNotAwaitTasks ==
    /\ (loop = "polling" /\ ~rx_dropped /\ queue # <<>>) => ENABLED LoopRecv
    /\ \A i \in InFlight("task") :
        /\ rt[i].pc = "spawned" => ENABLED TaskStart(i)
        /\ rt[i].pc = "in_factory" => ENABLED FactoryResolve(i, TRUE)
        /\ rt[i].pc = "in_handler" => ENABLED HandlerResolve(i, TRUE)

\* Two tasks for the same event key are inside their handlers at once.
C12_Witness ==
    \E i, j \in InFlight("task") :
        /\ i # j
        /\ items[i].event = items[j].event
        /\ rt[i].pc = "in_handler" /\ rt[j].pc = "in_handler"

\* The place of each routing step in the order of call.
StepRank(step) ==
    CASE step = "new_service" -> 1
      [] step = "take" -> 2
      [] step = "lookup" -> 3
      [] step = "new_handler" -> 4
      [] step = "handler_call" -> 5
      [] step = "callback" -> 6
      [] step = "return" -> 7

Did(i, step) == step \in Range(rt[i].steps)

\* C13: the routing steps of an item happen in one fixed order and each at
\* most once (take, lookup, new_handler, handler.call, callback, return);
\* handler.call only after new_handler succeeded, new_handler only on a hit,
\* the callback only after the payload is gone and the handler has resolved
\* or was skipped on a miss, and a finished item takes no further step.
C13_RoutingStepsInOrder ==
    \A i \in Ids :
        /\ \A k, l \in DOMAIN rt[i].steps :
            k < l => StepRank(rt[i].steps[k]) < StepRank(rt[i].steps[l])
        /\ Did(i, "lookup") => Did(i, "take")
        /\ Did(i, "take") => items[i].request = "None"
        /\ Did(i, "new_handler") =>
            Did(i, "lookup") /\ items[i].event \in DOMAIN module_map
        /\ Did(i, "handler_call") =>
            Did(i, "new_handler") /\ rt[i].pc \in {"in_handler", "done"}
        /\ Did(i, "callback") =>
            /\ Did(i, "lookup") /\ items[i].callback
            /\ rt[i].result.tag # "None"
            /\ Did(i, "handler_call") <=> items[i].event \in DOMAIN module_map
        /\ Did(i, "return") =>
            /\ rt[i].pc = "done"
            /\ items[i].callback => Did(i, "callback")
        /\ rt[i].pc \in {"failed", "panicked"} =>
            ~Did(i, "handler_call") /\ ~Did(i, "callback") /\ ~Did(i, "return")

\* A hit and a miss have both run to their end, callbacks included.
C13_Witness ==
    \E i, j \in Ids :
        /\ rt[i].steps = <<"new_service", "take", "lookup", "new_handler",
                           "handler_call", "callback", "return">>
        /\ rt[j].steps = <<"new_service", "take", "lookup", "callback", "return">>

\* The items constructed with request = None.
NoPayload == {i \in Ids : items[i].event = "none"}

\* C14: call on an item without a payload panics at once: no lookup, no
\* handler factory, no handler and no callback happens for the item, call
\* produces no Response, and only such items panic in call.
C14_AbsentPayloadPanics ==
    \A i \in Ids :
        /\ rt[i].pc = "panicked" <=> (i \in NoPayload /\ rt[i].mode # "none" /\ rt[i].pc # "spawned")
        /\ i \in NoPayload =>
            /\ rt[i].pc \in {"queued", "dropped", "spawned", "panicked"}
            /\ \A k \in DOMAIN rt[i].steps : rt[i].steps[k] = "new_service"
            /\ rt[i].got = <<>>
            /\ rt[i].result.tag = "None"
            /\ rt[i].ret.tag = "None"
            /\ rt[i].out \in {"none", "panicked"}
            /\ rt[i].pc = "panicked" => rt[i].out = "panicked"

\* Both paths have met an item without a payload that carried a callback.
C14_Witness ==
    \E i, j \in NoPayload :
        /\ rt[i].mode = "sync" /\ rt[i].pc = "panicked" /\ items[i].callback
        /\ rt[j].mode = "task" /\ rt[j].pc = "panicked" /\ items[j].callback

NotCallback(step) == step # "callback"

\* Two items routed alike: same event, same path, same place, same result.
RoutedAlike(i, j) ==
    /\ items[i].event = items[j].event
    /\ rt[i].mode = rt[j].mode /\ rt[i].mode # "none"
    /\ rt[i].pc = rt[j].pc
    /\ rt[i].result.tag = rt[j].result.tag

\* C15: an item without a callback is routed exactly as one with a callback:
\* the same steps but the callback, the same outcome of call and the same
\* Response (that of its own request); no callback invocation happens for
\* it, and a task discards the response.
C15_NoCallbackSameRouting ==
    \A i, j \in Ids :
        (~items[i].callback /\ items[j].callback /\ RoutedAlike(i, j)) =>
            /\ rt[i].steps = SelectSeq(rt[j].steps, NotCallback)
            /\ rt[i].got = <<>>
            /\ rt[i].ret.tag = rt[j].ret.tag
            /\ rt[i].ret.status = rt[j].ret.status
            /\ rt[i].ret.body.kind = rt[j].ret.body.kind
            /\ rt[i].ret.tag = "Ok" => rt[i].ret.body.id = items[i].config
            /\ rt[i].out = rt[j].out
            /\ (rt[i].mode = "task" /\ rt[i].pc = "done") => rt[i].out = "discarded"

\* A task without a callback and a task with one both got the handler's
\* success.
C15_Witness ==
    \E i, j \in Ids :
        /\ ~items[i].callback /\ items[j].callback /\ RoutedAlike(i, j)
        /\ rt[i].mode = "task" /\ rt[i].pc = "done" /\ rt[i].result.tag = "Ok"

\* C16: no operation of the dispatcher, the loop or a dispatch task changes
\* the registry: it is always the one the dispatcher was constructed with.
C16_RegistryReadOnly == module_map = InitialModuleMap

\* sync_send, async_send, tx, take_data_rx, the loop and a task have all run,
\* with a hit on each path.
C16_Witness ==
    /\ tx_clones >= 1 /\ rx_taken = 1 /\ loop = "polling"
    /\ \E i, j \in Ids :
        /\ rt[i].mode = "sync" /\ rt[i].pc = "done" /\ Did(i, "handler_call")
        /\ rt[j].mode = "task" /\ rt[j].pc = "done" /\ Did(j, "handler_call")

\* C17: the loop ends only with the channel empty and every sender dropped:
\* the stream's own data_tx and every clone from tx(). While the stream or a
\* clone lives, or a message is queued, the loop cannot end; once it has
\* ended it received everything the channel accepted.
C17_LoopEndsOnlyWhenClosed ==
    /\ loop = "ready" =>
        /\ queue = <<>>
        /\ ~stream_alive /\ tx_clones = 0
        /\ deq_log = enq_log
    /\ (stream_alive \/ tx_clones > 0 \/ queue # <<>>) => ~ENABLED LoopReady

\* The loop ended after receiving an item.
C17_Witness == loop = "ready" /\ deq_log # <<>>

\* The loop still polls an empty queue because a clone of the sender lives.
C17_StillPolling ==
    loop = "polling" /\ queue = <<>> /\ ~stream_alive /\ tx_clones > 0

\* The position of a step among the steps of an item, 0 when it did not
\* happen.
StepAt(i, step) ==
    IF Did(i, step)
    THEN CHOOSE k \in DOMAIN rt[i].steps : rt[i].steps[k] = step
    ELSE 0

\* C18: when sync_send has returned, call has run to its end and the
\* callback of the item, if it has one, has been invoked, before the return;
\* and while the routing of a sync_send is pending it has not returned.
C18_SyncCallbackBeforeReturn ==
    \A i \in Ids :
        rt[i].mode = "sync" =>
            /\ rt[i].out = "returned" =>
                /\ rt[i].pc = "done"
                /\ rt[i].ret.tag = "Ok"
                /\ items[i].callback =>
                    /\ Len(rt[i].got) = 1
                    /\ i \in Range(cb_order)
                    /\ 0 < StepAt(i, "callback")
                    /\ StepAt(i, "callback") < StepAt(i, "return")
            /\ rt[i].pc \in {"in_factory", "in_handler"} =>
                rt[i].out = "none" /\ ~Did(i, "return")

\* A sync_send with a callback has returned its handler's response.
C18_Witness ==
    \E i \in Ids :
        /\ rt[i].mode = "sync" /\ rt[i].out = "returned" /\ items[i].callback
        /\ Did(i, "handler_call")

\* The place of an item among the items the loop received, 0 when it was
\* not received.
ReceivedAt(i) ==
    IF i \in Range(deq_log)
    THEN CHOOSE k \in DOMAIN deq_log : deq_log[k] = i
    ELSE 0

\* C19: items sent before the receiver was taken or before a loop polled it
\* are not lost: while no loop exists and the receiver lives, every accepted
\* item waits in the queue, untouched and in the order sent; while the
\* receiver lives each accepted item is either still queued or was received;
\* and an item is received only after every item accepted before it.
C19_EarlyItemsKept ==
    /\ (loop = "none" /\ ~rx_dropped) =>
        /\ queue = enq_log /\ deq_log = <<>>
        /\ \A i \in Range(enq_log) : rt[i].pc = "queued" /\ rt[i].steps = <<>>
    /\ ~rx_dropped =>
        \A i \in Range(enq_log) : (i \in Range(queue)) # (i \in Range(deq_log))
    /\ \A a, b \in Range(enq_log) :
        (a < b /\ ReceivedAt(b) > 0) =>
            0 < ReceivedAt(a) /\ ReceivedAt(a) < ReceivedAt(b)

\* The receiver has been taken, no loop polls it yet, and the two items sent
\* so far wait in the queue in the order sent.
C19_Witness ==
    /\ rx_taken = 1 /\ loop = "none" /\ ~rx_dropped
    /\ queue = <<1, 2>>

\* The same two items after a loop ran on the taken receiver.
C19_ReceivedInOrder == loop = "polling" /\ deq_log = <<1, 2>>
====
